---- MODULE Spec2Model ----
(***************************************************************************)
(* Model of the validation engine of promarker-cli (commands/validate.ts): *)
(* validateCommand -> validateStencilDefinition -> validateSettingsFile    *)
(* (+ performStrictValidation) -> glob -> loadStencilSettings ->           *)
(* validateFileReferences -> validateReferenceIntegrity -> createSummary   *)
(* -> output + determineExitCode.                                          *)
(*                                                                         *)
(* One behaviour is one run of `promarker validate` on one directory.      *)
(* The directory (fs) and the options are chosen in Init; every await of   *)
(* validateStencilDefinition is one action.                                *)
(***************************************************************************)
EXTENDS Integers, Sequences, FiniteSets, TLC

VARIABLES
  fs,          \* the file system: absolute path -> node
  options,     \* ValidateOptions passed to validateCommand
  pc,          \* position of the run inside validateCommand
  results,     \* the ValidationResult[] array of validateStencilDefinition
  calls,       \* names of the functions entered so far, in call order
  settings,    \* the value returned by loadStencilSettings
  totalFiles,  \* the totalFiles argument of createSummary
  summary,     \* the ValidationSummary returned by createSummary
  output,      \* what validateCommand wrote to the console
  exitCode,    \* the number validateCommand returned
  parsed,      \* the local `settings` of validateSettingsFile (yaml.parse result)
  thrown,      \* the error on its way to the catch of validateCommand
  previous     \* report and exit code of the run before this one

vars == <<fs, options, pc, results, calls, settings, totalFiles, summary, output, exitCode,
          parsed, thrown, previous>>

-----------------------------------------------------------------------------
(* Bounds of the model.                                                    *)

\* longest `files` / `include` sequence a settings document declares
MaxEntries == 2

\* most required fields (id, name, version, type) a document leaves out or empty
MaxDefects == 2

-----------------------------------------------------------------------------
(* Values produced by the YAML parser (JavaScript values).                 *)
(* A string is kept as a TLA+ string, except `id` and `version`, which the *)
(* strict checks inspect character by character: those are sequences of    *)
(* one-character strings.                                                  *)

Undefined == [t |-> "undefined"]
Null      == [t |-> "null"]
Str(s)    == [t |-> "string", v |-> s]
Num(n)    == [t |-> "number", v |-> n]
Arr(a)    == [t |-> "array", v |-> a]
Obj(f)    == [t |-> "object", v |-> f]

\* settingsObj.key on a value cast to Record<string, unknown>
Get(x, k) == IF x.t = "object" /\ k \in DOMAIN x.v THEN x.v[k] ELSE Undefined

\* JavaScript truthiness (`if (settings)`, `settingsObj.files &&`, `!x`)
Truthy(x) ==
  CASE x.t \in {"undefined", "null"} -> FALSE
    [] x.t = "string" -> Len(x.v) > 0
    [] x.t = "number" -> x.v # 0
    [] OTHER -> TRUE

\* typeof x === 'object' && x !== null
IsObjectLike(x) == x.t \in {"object", "array"}

\* Array.isArray(x)
IsArray(x) == x.t = "array"

-----------------------------------------------------------------------------
(* Paths.                                                                  *)

\* path.join(path, name)
join(path, name) == path \o "/" \o name

\* resolve(process.cwd(), targetPath)
absolutePath == "/stencil"

SettingsName == "stencil-settings.yml"

-----------------------------------------------------------------------------
(* The file system.  A node is a directory or a file with its content; the *)
(* content of a settings document is its YAML text, kept as what the YAML  *)
(* parser makes of it: a syntax error with the parser's message, or the    *)
(* parsed value.                                                           *)

Dir(parent)           == [kind |-> "dir", parent |-> parent]
File(parent, content) == [kind |-> "file", parent |-> parent, content |-> content]

YamlOk(value)  == [syntax |-> "ok", value |-> value]
YamlBad(msg)   == [syntax |-> "error", message |-> msg]
PlainText      == YamlOk(Str("template"))

\* fs.existsSync(p)
existsSync(fsys, p) == p \in DOMAIN fsys

\* fs.statSync(p).isDirectory(), for a p that exists
isDirectory(fsys, p) == fsys[p].kind = "dir"

\* fs.readFileSync(p, 'utf-8'): the content, or the error it throws
readFileSync(fsys, p) ==
  IF ~existsSync(fsys, p)
    THEN [threw |-> TRUE, message |-> "ENOENT: no such file or directory, open '" \o p \o "'"]
    ELSE IF isDirectory(fsys, p)
      THEN [threw |-> TRUE, message |-> "EISDIR: illegal operation on a directory, read"]
      ELSE [threw |-> FALSE, value |-> fsys[p].content]

\* yaml.parse(content): the value, or the error it throws
parseYaml(content) ==
  IF content.syntax = "error"
    THEN [threw |-> TRUE, message |-> content.message]
    ELSE [threw |-> FALSE, value |-> content.value]

\* whether p lies (at any depth) under directory cwd
RECURSIVE Under(_, _, _)
Under(fsys, p, cwd) ==
  /\ p \in DOMAIN fsys
  /\ fsys[p].parent # ""
  /\ \/ fsys[p].parent = cwd
     \/ Under(fsys, fsys[p].parent, cwd)

\* mutant: only the files directly in cwd are counted ('*' for '**/*')
globCountTopLevel(fsys, cwd) ==
  Cardinality({p \in DOMAIN fsys : fsys[p].kind = "file" /\ fsys[p].parent = cwd})

\* (await glob('**/*', { cwd: path, nodir: true })).length
globCount(fsys, cwd) ==
  Cardinality({p \in DOMAIN fsys : fsys[p].kind = "file" /\ Under(fsys, p, cwd)})

-----------------------------------------------------------------------------
(* StencilSettingsSchema (zod).  An issue is [path, message]; safeParse     *)
(* visits the keys in the order of the schema and collects every issue.    *)

Issue(path, message) == [path |-> path, message |-> message]

\* the message of zod's invalid_type issue
InvalidType(expected, x) ==
  IF x.t = "undefined" THEN "Required"
  ELSE "Expected " \o expected \o ", received " \o x.t

\* mutant: z.string() without .min(1): an empty string passes
zStringNoMin(x, path, msg) ==
  IF x.t # "string" THEN <<Issue(path, InvalidType("string", x))>>
  ELSE <<>>

\* z.string().min(1, msg)
zStringMin1(x, path, msg) ==
  IF x.t # "string" THEN <<Issue(path, InvalidType("string", x))>>
  ELSE IF Len(x.v) < 1 THEN <<Issue(path, msg)>>
  ELSE <<>>

\* z.string().optional()
zStringOptional(x, path) ==
  IF x.t = "undefined" \/ x.t = "string" THEN <<>>
  ELSE <<Issue(path, InvalidType("string", x))>>

\* the issues of the elements i.. of an array checked by z.array(z.string())
RECURSIVE zElements(_, _, _)
zElements(a, i, path) ==
  IF i > Len(a) THEN <<>>
  ELSE (IF a[i].t = "string" THEN <<>>
        ELSE <<Issue(path \o <<ToString(i - 1)>>, InvalidType("string", a[i]))>>)
       \o zElements(a, i + 1, path)

\* z.array(z.string()).optional()
zStringArrayOptional(x, path) ==
  IF x.t = "undefined" THEN <<>>
  ELSE IF x.t # "array" THEN <<Issue(path, InvalidType("array", x))>>
  ELSE zElements(x.v, 1, path)

\* z.record(z.string(), z.any()).optional()
zRecordOptional(x, path) ==
  IF x.t = "undefined" \/ x.t = "object" THEN <<>>
  ELSE <<Issue(path, InvalidType("object", x))>>

\* StencilSettingsSchema.safeParse(value)
safeParse(value) ==
  LET issues ==
        IF value.t # "object" THEN <<Issue(<<>>, InvalidType("object", value))>>
        ELSE zStringMin1(Get(value, "id"), <<"id">>, "Stencil ID is required")
          \o zStringMin1(Get(value, "name"), <<"name">>, "Stencil name is required")
          \o zStringMin1(Get(value, "version"), <<"version">>, "Version is required")
          \o zStringMin1(Get(value, "type"), <<"type">>, "Stencil type is required")
          \o zStringOptional(Get(value, "description"), <<"description">>)
          \o zStringArrayOptional(Get(value, "files"), <<"files">>)
          \o zStringArrayOptional(Get(value, "include"), <<"include">>)
          \o zStringOptional(Get(value, "extend"), <<"extend">>)
          \o zRecordOptional(Get(value, "variables"), <<"variables">>)
          \o zRecordOptional(Get(value, "metadata"), <<"metadata">>)
  IN IF issues = <<>>
       THEN [success |-> TRUE, data |-> value, issues |-> <<>>]
       ELSE [success |-> FALSE, data |-> Undefined, issues |-> issues]

\* err.path.join('.')
RECURSIVE joinDot(_)
joinDot(path) ==
  IF path = <<>> THEN ""
  ELSE IF Len(path) = 1 THEN path[1]
  ELSE path[1] \o "." \o joinDot(Tail(path))

-----------------------------------------------------------------------------
(* The regular expressions of the strict checks, over character sequences. *)

Lower == {"a","b","c","d","e","f","g","h","i","j","k","l","m",
          "n","o","p","q","r","s","t","u","v","w","x","y","z"}
Digit == {"0","1","2","3","4","5","6","7","8","9"}

\* /^[a-z0-9-_]+$/.test(s)
IdPattern(s) ==
  /\ Len(s) >= 1
  /\ \A i \in 1..Len(s) : s[i] \in Lower \cup Digit \cup {"-", "_"}

\* s[from..to] is a non-empty run of digits
DigitRun(s, from, to) ==
  /\ from <= to
  /\ \A i \in from..to : s[i] \in Digit

\* /^\d+\.\d+\.\d+/.test(s)
SemverPattern(s) ==
  \E i, j, k \in 1..Len(s) :
    /\ DigitRun(s, 1, i)
    /\ i + 1 <= Len(s) /\ s[i + 1] = "."
    /\ DigitRun(s, i + 2, j)
    /\ j + 1 <= Len(s) /\ s[j + 1] = "."
    /\ DigitRun(s, j + 2, k)

-----------------------------------------------------------------------------
(* The validation engine.  Every function that pushes to `results` is an   *)
(* operator from the array before the call to the array after it.          *)

Finding(path, type, message) == [path |-> path, type |-> type, message |-> message]

FindingWithDetails(path, type, message, details) ==
  [path |-> path, type |-> type, message |-> message, details |-> details]

ValidMessage == "Stencil settings file is valid"
IdMessage == "Stencil ID should only contain lowercase letters, numbers, hyphens, and underscores"
VersionMessage == "Version should follow semantic versioning format (x.y.z)"
DescriptionMessage == "Description is recommended for better documentation"
FilesDirFound == "Default files/ directory found"
FilesDirMissing == "No files/ directory found and no explicit files list provided"
Phase1 == " (cannot validate external references in Phase 1)"

\* mutant: the id convention is reported as an error
strictIdAsError(settingsFile, settingsObj) ==
  IF Get(settingsObj, "id").t = "string" /\ ~IdPattern(Get(settingsObj, "id").v)
    THEN <<Finding(settingsFile, "error", IdMessage)>>
    ELSE <<>>

\* the check of settingsObj.id in performStrictValidation
strictId(settingsFile, settingsObj) ==
  IF Get(settingsObj, "id").t = "string" /\ ~IdPattern(Get(settingsObj, "id").v)
    THEN <<Finding(settingsFile, "warning", IdMessage)>>
    ELSE <<>>

\* the check of settingsObj.version in performStrictValidation
strictVersion(settingsFile, settingsObj) ==
  IF Get(settingsObj, "version").t = "string" /\ ~SemverPattern(Get(settingsObj, "version").v)
    THEN <<Finding(settingsFile, "warning", VersionMessage)>>
    ELSE <<>>

\* the check of settingsObj.description in performStrictValidation
strictDescription(settingsFile, settingsObj) ==
  IF ~Truthy(Get(settingsObj, "description"))
    THEN <<Finding(settingsFile, "warning", DescriptionMessage)>>
    ELSE <<>>

\* mutant: the checks are chained with else-if, so only the first violation fires
performStrictValidationFirstOnly(settingsFile, data, res) ==
  IF ~IsObjectLike(data) THEN res
  ELSE IF strictId(settingsFile, data) # <<>> THEN res \o strictId(settingsFile, data)
  ELSE IF strictVersion(settingsFile, data) # <<>> THEN res \o strictVersion(settingsFile, data)
  ELSE res \o strictDescription(settingsFile, data)

performStrictValidation(settingsFile, data, res) ==
  IF ~IsObjectLike(data) THEN res
  ELSE res \o strictId(settingsFile, data)
           \o strictVersion(settingsFile, data)
           \o strictDescription(settingsFile, data)

\* validation.error.issues.forEach(err => results.push(...))
RECURSIVE schemaFindings(_, _)
schemaFindings(settingsFile, issues) ==
  IF issues = <<>> THEN <<>>
  ELSE <<Finding(settingsFile, "error",
                 "Schema validation failed: " \o joinDot(Head(issues).path)
                   \o " - " \o Head(issues).message)>>
       \o schemaFindings(settingsFile, Tail(issues))

\* whether validateSettingsFile reaches its call of performStrictValidation
strictReached(fsys, settingsFile, opts) ==
  LET rd == readFileSync(fsys, settingsFile) IN
  /\ ~rd.threw
  /\ ~parseYaml(rd.value).threw
  /\ safeParse(parseYaml(rd.value).value).success
  /\ opts.strict

\* mutant: the "valid" info is pushed after schema errors too (no early return)
validateSettingsFileInfoAlways(fsys, settingsFile, res, opts) ==
  LET rd == readFileSync(fsys, settingsFile) IN
  IF rd.threw
    THEN Append(res, FindingWithDetails(settingsFile, "error",
                       "Failed to read stencil settings file", rd.message))
    ELSE
      LET y == parseYaml(rd.value) IN
      IF y.threw
        THEN Append(res, FindingWithDetails(settingsFile, "error",
                           "Invalid YAML format", y.message))
        ELSE
          LET validation == safeParse(y.value) IN
          Append(IF ~validation.success
                   THEN res \o schemaFindings(settingsFile, validation.issues)
                   ELSE IF opts.strict
                     THEN performStrictValidation(settingsFile, validation.data, res)
                     ELSE res,
                 Finding(settingsFile, "info", ValidMessage))

validateSettingsFile(fsys, settingsFile, res, opts) ==
  LET rd == readFileSync(fsys, settingsFile) IN
  IF rd.threw
    THEN Append(res, FindingWithDetails(settingsFile, "error",
                       "Failed to read stencil settings file", rd.message))
    ELSE
      LET y == parseYaml(rd.value) IN
      IF y.threw
        THEN Append(res, FindingWithDetails(settingsFile, "error",
                           "Invalid YAML format", y.message))
        ELSE
          LET validation == safeParse(y.value) IN
          IF ~validation.success
            THEN res \o schemaFindings(settingsFile, validation.issues)
            ELSE Append(IF opts.strict
                          THEN performStrictValidation(settingsFile, validation.data, res)
                          ELSE res,
                        Finding(settingsFile, "info", ValidMessage))

\* the value validateSettingsFile holds in its local `settings` when it has
\* read and parsed the document (undefined when it returned before)
parsedSettings(fsys, settingsFile) ==
  LET rd == readFileSync(fsys, settingsFile) IN
  IF rd.threw THEN Undefined
  ELSE IF parseYaml(rd.value).threw THEN Undefined
  ELSE parseYaml(rd.value).value

\* mutant: a failed load yields an empty object instead of null
loadStencilSettingsEmptyObject(fsys, settingsFile) ==
  LET rd == readFileSync(fsys, settingsFile) IN
  IF rd.threw THEN Obj(<<>>)
  ELSE IF parseYaml(rd.value).threw THEN Obj(<<>>)
  ELSE parseYaml(rd.value).value

\* loadStencilSettings(settingsFile): the raw parsed value, or null
loadStencilSettings(fsys, settingsFile) ==
  LET rd == readFileSync(fsys, settingsFile) IN
  IF rd.threw THEN Null
  ELSE IF parseYaml(rd.value).threw THEN Null
  ELSE parseYaml(rd.value).value

\* mutant: the loop over settingsObj.files stops at the first missing file
RECURSIVE fileFindingsStopAtMissing(_, _, _, _)
fileFindingsStopAtMissing(fsys, path, files, i) ==
  IF i > Len(files) THEN <<>>
  ELSE IF files[i].t # "string" THEN fileFindingsStopAtMissing(fsys, path, files, i + 1)
  ELSE IF ~existsSync(fsys, join(path, files[i].v))
    THEN <<Finding(join(path, files[i].v), "error",
                   "Referenced file does not exist: " \o files[i].v)>>
    ELSE <<Finding(join(path, files[i].v), "info",
                   "Referenced file exists: " \o files[i].v)>>
         \o fileFindingsStopAtMissing(fsys, path, files, i + 1)

\* the body of `for (const file of settingsObj.files)`, from element i on
RECURSIVE fileFindings(_, _, _, _)
fileFindings(fsys, path, files, i) ==
  IF i > Len(files) THEN <<>>
  ELSE (IF files[i].t # "string" THEN <<>>
        ELSE IF ~existsSync(fsys, join(path, files[i].v))
          THEN <<Finding(join(path, files[i].v), "error",
                         "Referenced file does not exist: " \o files[i].v)>>
          ELSE <<Finding(join(path, files[i].v), "info",
                         "Referenced file exists: " \o files[i].v)>>)
       \o fileFindings(fsys, path, files, i + 1)

\* mutant: files/ is accepted whenever it exists, directory or not
filesDirFindingExistsOnly(fsys, path) ==
  LET filesDir == join(path, "files") IN
  IF existsSync(fsys, filesDir)
    THEN <<Finding(filesDir, "info", FilesDirFound)>>
    ELSE <<Finding(filesDir, "warning", FilesDirMissing)>>

\* the check of the default files/ directory
filesDirFinding(fsys, path) ==
  LET filesDir == join(path, "files") IN
  IF existsSync(fsys, filesDir) /\ isDirectory(fsys, filesDir)
    THEN <<Finding(filesDir, "info", FilesDirFound)>>
    ELSE <<Finding(filesDir, "warning", FilesDirMissing)>>

\* mutant: declared files matched by an ignore pattern are not checked
\* (every declared file of the model matches the pattern files/**)
validateFileReferencesIgnoring(fsys, path, sett, res, opts) ==
  IF ~IsObjectLike(sett) THEN res
  ELSE
    LET files == Get(sett, "files") IN
    res \o (IF Truthy(files) /\ IsArray(files) /\ Len(opts.ignore) = 0
              THEN fileFindings(fsys, path, files.v, 1) ELSE <<>>)
        \o (IF ~Truthy(files) THEN filesDirFinding(fsys, path) ELSE <<>>)

\* mutant: an empty files list counts as no files list
validateFileReferencesEmptyAsAbsent(fsys, path, sett, res, opts) ==
  IF ~IsObjectLike(sett) THEN res
  ELSE
    LET files == Get(sett, "files")
        empty == IsArray(files) /\ Len(files.v) = 0
    IN
    res \o (IF Truthy(files) /\ IsArray(files)
              THEN fileFindings(fsys, path, files.v, 1) ELSE <<>>)
        \o (IF ~Truthy(files) \/ empty THEN filesDirFinding(fsys, path) ELSE <<>>)

validateFileReferences(fsys, path, sett, res, opts) ==
  IF ~IsObjectLike(sett) THEN res
  ELSE
    LET files == Get(sett, "files") IN
    res \o (IF Truthy(files) /\ IsArray(files)
              THEN fileFindings(fsys, path, files.v, 1) ELSE <<>>)
        \o (IF ~Truthy(files) THEN filesDirFinding(fsys, path) ELSE <<>>)

\* mutant: the include entries are reported last to first
RECURSIVE includeFindingsReversed(_, _, _)
includeFindingsReversed(path, include, i) ==
  IF i > Len(include) THEN <<>>
  ELSE includeFindingsReversed(path, include, i + 1)
       \o (IF include[i].t # "string" THEN <<>>
           ELSE <<Finding(join(path, SettingsName), "warning",
                          "Include reference found: " \o include[i].v \o Phase1)>>)

\* the body of settingsObj.include.forEach, from element i on
RECURSIVE includeFindings(_, _, _)
includeFindings(path, include, i) ==
  IF i > Len(include) THEN <<>>
  ELSE (IF include[i].t # "string" THEN <<>>
        ELSE <<Finding(join(path, SettingsName), "warning",
                       "Include reference found: " \o include[i].v \o Phase1)>>)
       \o includeFindings(path, include, i + 1)

validateReferenceIntegrity(path, sett, res, opts) ==
  IF ~IsObjectLike(sett) THEN res
  ELSE
    LET extend  == Get(sett, "extend")
        include == Get(sett, "include")
    IN
    res \o (IF Truthy(extend) /\ extend.t = "string"
              THEN <<Finding(join(path, SettingsName), "warning",
                             "Extend reference found: " \o extend.v \o Phase1)>>
              ELSE <<>>)
        \o (IF Truthy(include) /\ IsArray(include)
              THEN includeFindings(path, include.v, 1) ELSE <<>>)

\* results.filter(r => r.type === type)
filterType(res, type) == SelectSeq(res, LAMBDA r : r.type = type)

\* mutant: warnings make the report unsuccessful too
createSummaryWarningsFail(path, res, total, now) ==
  [success     |-> Len(filterType(res, "error")) = 0 /\ Len(filterType(res, "warning")) = 0,
   path        |-> path,
   errors      |-> filterType(res, "error"),
   warnings    |-> filterType(res, "warning"),
   info        |-> filterType(res, "info"),
   totalFiles  |-> total,
   validatedAt |-> now]

\* mutant: the warnings are listed newest first
newestFirst(q) == [i \in 1..Len(q) |-> q[Len(q) + 1 - i]]

createSummaryNewestFirst(path, res, total, now) ==
  [success     |-> Len(filterType(res, "error")) = 0,
   path        |-> path,
   errors      |-> filterType(res, "error"),
   warnings    |-> newestFirst(filterType(res, "warning")),
   info        |-> filterType(res, "info"),
   totalFiles  |-> total,
   validatedAt |-> now]

createSummary(path, res, total, now) ==
  [success     |-> Len(filterType(res, "error")) = 0,
   path        |-> path,
   errors      |-> filterType(res, "error"),
   warnings    |-> filterType(res, "warning"),
   info        |-> filterType(res, "info"),
   totalFiles  |-> total,
   validatedAt |-> now]

\* mutant: warnings always count, whatever failOn is
determineExitCodeAnyWarning(summ, failOn) ==
  IF Len(summ.errors) > 0 THEN 2
  ELSE IF Len(summ.warnings) > 0 THEN 1
  ELSE 0

determineExitCode(summ, failOn) ==
  IF Len(summ.errors) > 0 THEN 2
  ELSE IF failOn = "warn" /\ Len(summ.warnings) > 0 THEN 1
  ELSE 0

\* the early returns of validateStencilDefinition: the finding of the first
\* precondition that fails, or nothing
precondition(fsys, path) ==
  IF ~existsSync(fsys, path)
    THEN <<Finding(path, "error", "Path does not exist")>>
  ELSE IF ~isDirectory(fsys, path)
    THEN <<Finding(path, "error", "Path must be a directory")>>
  ELSE IF ~existsSync(fsys, join(path, SettingsName))
    THEN <<Finding(join(path, SettingsName), "error",
                   "Required file stencil-settings.yml not found")>>
  ELSE <<>>

\* validateStencilDefinition on a directory that does not change during the run
validateStencilDefinition(fsys, path, opts, now) ==
  IF precondition(fsys, path) # <<>>
    THEN createSummary(path, precondition(fsys, path), 0, now)
    ELSE
      LET settingsFile == join(path, SettingsName)
          r1   == validateSettingsFile(fsys, settingsFile, <<>>, opts)
          sett == loadStencilSettings(fsys, settingsFile)
          r2   == IF Truthy(sett)
                    THEN validateReferenceIntegrity(path, sett,
                           validateFileReferences(fsys, path, sett, r1, opts), opts)
                    ELSE r1
      IN createSummary(path, r2, globCount(fsys, path), now)

\* the lines printTextResults writes for one list of findings
RECURSIVE textFindings(_, _)
textFindings(list, withDetails) ==
  IF list = <<>> THEN <<>>
  ELSE <<"  * " \o Head(list).message>>
       \o (IF withDetails /\ "details" \in DOMAIN Head(list)
             THEN <<"    " \o Head(list).details>> ELSE <<>>)
       \o <<"    Location: " \o Head(list).path>>
       \o textFindings(Tail(list), withDetails)

printTextResults(summ) ==
  <<"ProMarker Stencil Validation Report",
    "Path: " \o summ.path,
    "Files: " \o ToString(summ.totalFiles),
    "Validated: " \o summ.validatedAt>>
  \o (IF Len(summ.errors) > 0
        THEN <<"Errors (" \o ToString(Len(summ.errors)) \o "):">>
             \o textFindings(summ.errors, TRUE) ELSE <<>>)
  \o (IF Len(summ.warnings) > 0
        THEN <<"Warnings (" \o ToString(Len(summ.warnings)) \o "):">>
             \o textFindings(summ.warnings, TRUE) ELSE <<>>)
  \o (IF Len(summ.info) > 0
        THEN <<"Information (" \o ToString(Len(summ.info)) \o "):">>
             \o textFindings(summ.info, FALSE) ELSE <<>>)
  \o <<IF summ.success THEN "Validation successful!" ELSE "Validation failed">>
  \o <<"Summary: " \o ToString(Len(summ.errors)) \o " errors, "
         \o ToString(Len(summ.warnings)) \o " warnings, "
         \o ToString(Len(summ.info)) \o " info">>

\* what validateCommand writes on a completed run
render(summ, format) ==
  IF format = "json"
    THEN [format |-> "json", json |-> summ]
    ELSE [format |-> "text", lines |-> printTextResults(summ)]

-----------------------------------------------------------------------------
(* The inputs: settings documents, directories and options.                *)

\* all sequences over S of length at most n
SeqsUpTo(S, n) == UNION {[1..k -> S] : k \in 0..n}

\* the document with the given top-level keys; a key given Undefined is left out
Settings(id, name, version, type, description, files, include, extend) ==
  LET all == [id |-> id, name |-> name, version |-> version, type |-> type,
              description |-> description, files |-> files,
              include |-> include, extend |-> extend]
      present == {k \in DOMAIN all : all[k].t # "undefined"}
  IN Obj([k \in present |-> all[k]])

IdSvc    == Str(<<"s","v","c">>)
IdDashed == Str(<<"a","-","1","_","b">>)
IdBad    == Str(<<"B","a","d"," ","I","D","!">>)
Empty    == Str(<<>>)
NoText   == Str("")
V100     == Str(<<"1",".","0",".","0">>)
V10      == Str(<<"1",".","0">>)
VRc      == Str(<<"1","0",".","2",".","3","-","r","c">>)
VPrefixed == Str(<<"v","1",".","0",".","0">>)

FileNames    == {"files/a.txt", "files/b.txt"}
IncludeNames == {"common", "shared"}

StrArr(seq) == Arr([i \in DOMAIN seq |-> Str(seq[i])])

\* valid documents that differ in what the strict checks look at
StrictDocs ==
  {Settings(id, Str("Service"), version, Str("service"), description,
            Undefined, Undefined, Undefined) :
     id \in {IdSvc, IdDashed, IdBad},
     version \in {V100, V10, VRc, VPrefixed},
     description \in {Undefined, NoText, Str("A service")}}

\* documents that differ in `files`, well typed or not
FilesDocs ==
  {Settings(IdSvc, Str("Service"), V100, Str("service"), Undefined,
            files, Undefined, extend) :
     files \in {StrArr(q) : q \in SeqsUpTo(FileNames, MaxEntries)}
               \cup {Str("files/a.txt"), Null, Arr(<<Num(1)>>), StrArr(<<"files">>)},
     extend \in {Undefined, Str("base-template")}}

\* documents that differ in `include` and `extend`
CrossRefDocs ==
  {Settings(IdSvc, Str("Service"), V100, Str("service"), Undefined,
            Undefined, include, extend) :
     include \in {Undefined} \cup {StrArr(q) : q \in SeqsUpTo(IncludeNames, MaxEntries)},
     extend \in {Undefined, NoText, Str("base-template")}}

\* number of required fields that are missing or empty
Defects(id, name, version, type) ==
  LET missing(x) == x.t = "undefined" \/ Len(x.v) = 0
  IN Cardinality({i \in 1..4 : missing(<<id, name, version, type>>[i])})

\* documents that leave required fields out or empty
DefectDocs ==
  {Settings(r[1], r[2], r[3], r[4], Undefined, o[1], o[2], o[3]) :
     r \in {q \in {Undefined, Empty, IdSvc} \X {Undefined, NoText, Str("Service")}
                  \X {Undefined, Empty, V100} \X {Undefined, NoText, Str("service")} :
              Defects(q[1], q[2], q[3], q[4]) <= MaxDefects},
     o \in {<<Undefined, Undefined, Undefined>>,
            <<StrArr(<<"files/a.txt">>), StrArr(<<"common">>), Str("base-template")>>}}
  \cup {Settings(Num(5), Str("Service"), V100, Str("service"), Undefined,
                 Undefined, Undefined, Undefined)}

\* what a readable stencil-settings.yml can hold
Contents ==
  {YamlOk(d) : d \in StrictDocs \cup FilesDocs \cup CrossRefDocs \cup DefectDocs}
  \cup {YamlOk(Null), YamlOk(Str("hello")), YamlOk(Arr(<<>>)), YamlOk(Num(0))}
  \cup {YamlBad("Implicit map keys need to be followed by map values")}

\* the nodes beside stencil-settings.yml: nothing, the files/ convention
\* directory (or a file of that name), or a directory named like an extend target
FilesTrees ==
  {<<>>, join(absolutePath, "files") :> File(absolutePath, PlainText),
   join(absolutePath, "base-template") :> Dir(absolutePath)}
  \cup {(join(absolutePath, "files") :> Dir(absolutePath))
        @@ [p \in {join(absolutePath, n) : n \in present} |->
              File(join(absolutePath, "files"), PlainText)] :
        present \in SUBSET FileNames}

\* the nodes of stencil-settings.yml: absent, a directory (unreadable), a document
SettingsNodes ==
  {<<>>, join(absolutePath, SettingsName) :> Dir(absolutePath)}
  \cup {join(absolutePath, SettingsName) :> File(absolutePath, c) : c \in Contents}

FileSystems ==
  {<<>>, absolutePath :> File("", PlainText)}
  \cup {(absolutePath :> Dir("")) @@ st @@ ft : st \in SettingsNodes, ft \in FilesTrees}

Options ==
  [format : {"text", "json"},
   failOn : {"none", "warn", "error"},
   strict : BOOLEAN,
   ignore : {<<>>, <<"files/**">>}]

\* the values new Date().toISOString() can take
Times == {"2025-01-01T00:00:00.000Z", "2025-01-01T00:00:01.000Z"}

-----------------------------------------------------------------------------
(* The run.                                                                *)

Init ==
  /\ fs \in FileSystems
  /\ options \in Options
  /\ pc = "validateStencilDefinition"
  /\ results = <<>>
  /\ calls = <<"validateCommand">>
  /\ settings = Undefined
  /\ totalFiles = 0
  /\ summary = Undefined
  /\ output = Undefined
  /\ exitCode = Undefined
  /\ parsed = Undefined
  /\ thrown = Undefined
  /\ previous = Undefined

\* validateStencilDefinition up to its first await: the precondition checks
CheckPath ==
  /\ pc = "validateStencilDefinition"
  /\ calls' = Append(calls, "validateStencilDefinition")
  /\ results' = results \o precondition(fs, absolutePath)
  /\ pc' = IF precondition(fs, absolutePath) # <<>>
             THEN "createSummary" ELSE "validateSettingsFile"
  /\ UNCHANGED <<fs, options, settings, totalFiles, summary, output, exitCode,
               parsed, thrown, previous>>

\* await validateSettingsFile(settingsFile, results, options)
ValidateSettingsFile ==
  /\ pc = "validateSettingsFile"
  /\ calls' = calls \o <<"validateSettingsFile">>
                \o (IF strictReached(fs, join(absolutePath, SettingsName), options)
                      THEN <<"performStrictValidation">> ELSE <<>>)
  /\ results' = validateSettingsFile(fs, join(absolutePath, SettingsName), results, options)
  /\ parsed' = parsedSettings(fs, join(absolutePath, SettingsName))
  /\ pc' = "glob"
  /\ UNCHANGED <<fs, options, settings, totalFiles, summary, output, exitCode,
               thrown, previous>>

\* await glob('**/*', ...)
Glob ==
  /\ pc = "glob"
  /\ totalFiles' = globCount(fs, absolutePath)
  /\ pc' = "loadStencilSettings"
  /\ UNCHANGED <<fs, options, results, calls, settings, summary, output, exitCode,
               parsed, thrown, previous>>

\* await loadStencilSettings(settingsFile), and the test `if (settings)`
LoadStencilSettings ==
  /\ pc = "loadStencilSettings"
  /\ calls' = Append(calls, "loadStencilSettings")
  /\ settings' = loadStencilSettings(fs, join(absolutePath, SettingsName))
  /\ pc' = IF Truthy(settings') THEN "validateFileReferences" ELSE "createSummary"
  /\ UNCHANGED <<fs, options, results, totalFiles, summary, output, exitCode,
               parsed, thrown, previous>>

\* await validateFileReferences(path, settings, results, options)
ValidateFileReferences ==
  /\ pc = "validateFileReferences"
  /\ calls' = Append(calls, "validateFileReferences")
  /\ results' = validateFileReferences(fs, absolutePath, settings, results, options)
  /\ pc' = "validateReferenceIntegrity"
  /\ UNCHANGED <<fs, options, settings, totalFiles, summary, output, exitCode,
               parsed, thrown, previous>>

\* await validateReferenceIntegrity(path, settings, results, options)
ValidateReferenceIntegrity ==
  /\ pc = "validateReferenceIntegrity"
  /\ calls' = Append(calls, "validateReferenceIntegrity")
  /\ results' = validateReferenceIntegrity(absolutePath, settings, results, options)
  /\ pc' = "createSummary"
  /\ UNCHANGED <<fs, options, settings, totalFiles, summary, output, exitCode,
               parsed, thrown, previous>>

\* return createSummary(path, results, totalFiles)
CreateSummary ==
  /\ pc = "createSummary"
  /\ \E now \in Times :
       summary' = createSummary(absolutePath, results, totalFiles, now)
  /\ pc' = "output"
  /\ UNCHANGED <<fs, options, results, calls, settings, totalFiles, output, exitCode,
               parsed, thrown, previous>>

\* mutant: the report is also saved as a file in the validated directory
OutputSavingReport ==
  /\ pc = "output"
  /\ output' = render(summary, options.format)
  /\ exitCode' = determineExitCode(summary, options.failOn)
  /\ fs' = (join(absolutePath, "report.json") :> File(absolutePath, PlainText)) @@ fs
  /\ pc' = "done"
  /\ UNCHANGED <<options, results, calls, settings, totalFiles, summary,
               parsed, thrown, previous>>

\* validateCommand after the await: print the report, return the exit code
Output ==
  /\ pc = "output"
  /\ output' = render(summary, options.format)
  /\ exitCode' = determineExitCode(summary, options.failOn)
  /\ pc' = "done"
  /\ UNCHANGED <<fs, options, results, calls, settings, totalFiles, summary,
               parsed, thrown, previous>>

Next ==
  \/ CheckPath
  \/ ValidateSettingsFile
  \/ Glob
  \/ LoadStencilSettings
  \/ ValidateFileReferences
  \/ ValidateReferenceIntegrity
  \/ CreateSummary
  \/ Output

Spec == Init /\ [][Next]_vars

-----------------------------------------------------------------------------
(* Runs in which an I/O call throws.  existsSync never throws and the      *)
(* errors of readFileSync and yaml.parse are caught where they occur; the  *)
(* calls below are made outside any inner try, so what they throw reaches  *)
(* the catch of validateCommand.                                           *)

\* what validateCommand writes in its catch block: a JSON record on stdout,
\* or one line on stderr
renderError(message, format, now) ==
  IF format = "json"
    THEN [format |-> "json",
          json |-> [success |-> FALSE, error |-> message, validatedAt |-> now]]
    ELSE [format |-> "text", stderr |-> <<"Validation failed: " \o message>>]

\* statSync(path) throws (the root has gone, or cannot be examined, since existsSync)
StatSyncThrows ==
  /\ pc = "validateStencilDefinition"
  /\ existsSync(fs, absolutePath)
  /\ calls' = Append(calls, "validateStencilDefinition")
  /\ thrown' = Str("EACCES: permission denied, stat '" \o absolutePath \o "'")
  /\ pc' = "catch"
  /\ UNCHANGED <<fs, options, results, settings, totalFiles, summary, output, exitCode,
                 parsed, previous>>

\* glob('**/*', ...) rejects (a directory of the walk cannot be read)
GlobThrows ==
  /\ pc = "glob"
  /\ thrown' = Str("EACCES: permission denied, scandir '" \o absolutePath \o "'")
  /\ pc' = "catch"
  /\ UNCHANGED <<fs, options, results, calls, settings, totalFiles, summary, output,
                 exitCode, parsed, previous>>

\* statSync(filesDir) throws inside validateFileReferences: `files` is falsy,
\* so nothing was pushed before the call
StatFilesDirThrows ==
  /\ pc = "validateFileReferences"
  /\ IsObjectLike(settings)
  /\ ~Truthy(Get(settings, "files"))
  /\ existsSync(fs, join(absolutePath, "files"))
  /\ calls' = Append(calls, "validateFileReferences")
  /\ thrown' = Str("EACCES: permission denied, stat '" \o join(absolutePath, "files") \o "'")
  /\ pc' = "catch"
  /\ UNCHANGED <<fs, options, results, settings, totalFiles, summary, output, exitCode,
                 parsed, previous>>

\* the catch block of validateCommand
Catch ==
  /\ pc = "catch"
  /\ \E now \in Times : output' = renderError(thrown.v, options.format, now)
  /\ exitCode' = 2
  /\ pc' = "done"
  /\ UNCHANGED <<fs, options, results, calls, settings, totalFiles, summary,
                 parsed, thrown, previous>>

NextFaults ==
  \/ Next
  \/ StatSyncThrows
  \/ GlobThrows
  \/ StatFilesDirThrows
  \/ Catch

SpecFaults == Init /\ [][NextFaults]_vars

-----------------------------------------------------------------------------
(* Runs during which another process rewrites stencil-settings.yml.  The   *)
(* run awaits between validateSettingsFile and loadStencilSettings (the    *)
(* glob), and each of the two reads the file anew.                         *)

\* what the other process may write
EditedContents ==
  {YamlOk(Settings(IdSvc, Str("Service"), V100, Str("service"), Undefined,
                   StrArr(<<"files/a.txt">>), Undefined, Str("base-template"))),
   YamlOk(Settings(Undefined, Str("Service"), V100, Str("service"), Undefined,
                   Undefined, StrArr(<<"common">>), Undefined))}

\* the document is rewritten while the run awaits the glob
EditDocument ==
  /\ pc = "glob"
  /\ existsSync(fs, join(absolutePath, SettingsName))
  /\ ~isDirectory(fs, join(absolutePath, SettingsName))
  /\ \E c \in EditedContents :
       /\ c # fs[join(absolutePath, SettingsName)].content
       /\ fs' = [fs EXCEPT ![join(absolutePath, SettingsName)].content = c]
  /\ UNCHANGED <<options, pc, results, calls, settings, totalFiles, summary, output,
                 exitCode, parsed, thrown, previous>>

\* the runs whose report is printed as JSON, with no ignore pattern
InitConcurrentEdit == Init /\ options.format = "json" /\ options.ignore = <<>>

NextConcurrentEdit ==
  \/ Next
  \/ EditDocument

SpecConcurrentEdit == InitConcurrentEdit /\ [][NextConcurrentEdit]_vars

-----------------------------------------------------------------------------
(* Two runs, one after the other, on the same directory with the same      *)
(* options.  Every local of validateCommand and validateStencilDefinition  *)
(* is created anew by the second call; the module keeps no state.          *)

\* mutant: the results array outlives the call (a module-level array)
RerunKeepingResults ==
  /\ pc = "done"
  /\ previous = Undefined
  /\ thrown = Undefined
  /\ previous' = [summary |-> summary, exitCode |-> exitCode]
  /\ pc' = "validateStencilDefinition"
  /\ calls' = <<"validateCommand">>
  /\ settings' = Undefined
  /\ totalFiles' = 0
  /\ summary' = Undefined
  /\ output' = Undefined
  /\ exitCode' = Undefined
  /\ parsed' = Undefined
  /\ UNCHANGED <<fs, options, thrown, results>>

\* validateCommand is called a second time
Rerun ==
  /\ pc = "done"
  /\ previous = Undefined
  /\ thrown = Undefined
  /\ previous' = [summary |-> summary, exitCode |-> exitCode]
  /\ pc' = "validateStencilDefinition"
  /\ results' = <<>>
  /\ calls' = <<"validateCommand">>
  /\ settings' = Undefined
  /\ totalFiles' = 0
  /\ summary' = Undefined
  /\ output' = Undefined
  /\ exitCode' = Undefined
  /\ parsed' = Undefined
  /\ UNCHANGED <<fs, options, thrown>>

NextRerun ==
  \/ Next
  \/ Rerun

SpecRerun == Init /\ [][NextRerun]_vars

-----------------------------------------------------------------------------
(* Vocabulary of the properties, stated on the directory that is validated *)
(* and on what the run produced.                                           *)

SettingsFile == join(absolutePath, SettingsName)
FilesDir     == join(absolutePath, "files")

RootMissing      == absolutePath \notin DOMAIN fs
RootNotDirectory == absolutePath \in DOMAIN fs /\ fs[absolutePath].kind # "dir"
RootIsDirectory  == absolutePath \in DOMAIN fs /\ fs[absolutePath].kind = "dir"
DocumentAbsent   == RootIsDirectory /\ SettingsFile \notin DOMAIN fs
DocumentUnreadable ==
  RootIsDirectory /\ SettingsFile \in DOMAIN fs /\ fs[SettingsFile].kind = "dir"
DocumentReadable ==
  RootIsDirectory /\ SettingsFile \in DOMAIN fs /\ fs[SettingsFile].kind = "file"
ParseFails  == DocumentReadable /\ fs[SettingsFile].content.syntax = "error"
Parses      == DocumentReadable /\ fs[SettingsFile].content.syntax = "ok"
\* the parsed settings document (meaningful when Parses)
Doc         == fs[SettingsFile].content.value

RequiredFields == {"id", "name", "version", "type"}

\* the document has key k
Has(d, k) == d.t = "object" /\ k \in DOMAIN d.v

NonEmptyString(x) == x.t = "string" /\ Len(x.v) >= 1
StringList(x)     == x.t = "array" /\ \A i \in 1..Len(x.v) : x.v[i].t = "string"

\* the StencilSettings shape of the data model: required fields present and
\* non-empty, optional fields absent or of their type
ValidDocument(d) ==
  /\ d.t = "object"
  /\ \A k \in RequiredFields : Has(d, k) /\ NonEmptyString(d.v[k])
  /\ \A k \in {"description", "extend"} : Has(d, k) => d.v[k].t = "string"
  /\ \A k \in {"files", "include"} : Has(d, k) => StringList(d.v[k])
  /\ \A k \in {"variables", "metadata"} : Has(d, k) => d.v[k].t = "object"

\* the run reached the end of validateCommand
Done == pc = "done"

\* number of findings of `res` with the given severity
CountType(res, type) == Cardinality({i \in 1..Len(res) : res[i].type = type})

\* number of findings of `res` with the given message
CountMessage(res, message) == Cardinality({i \in 1..Len(res) : res[i].message = message})

Ran(name) == \E i \in 1..Len(calls) : calls[i] = name

-----------------------------------------------------------------------------
C2_SuccessIffNoErrors ==
  pc \in {"output", "done"} =>
    /\ summary.success <=> CountType(results, "error") = 0
    /\ summary.success <=> Len(summary.errors) = 0

\* a successful report that carries warnings and info
C2_Witness ==
  /\ Done
  /\ summary.success
  /\ Len(summary.warnings) > 0
  /\ Len(summary.info) > 0

(* C3: in every fatal case (root missing, root not a directory, settings   *)
(* document absent, unreadable or unparsable) the report has exactly one   *)
(* error and no warning or info finding, no strict, reference or           *)
(* cross-reference check ran, the exit code is 2, and for a parse failure  *)
(* the finding carries the parser's message as details.                    *)
FatalCase ==
  RootMissing \/ RootNotDirectory \/ DocumentAbsent \/ DocumentUnreadable \/ ParseFails

C3_FatalCaseSingleError ==
  (Done /\ FatalCase) =>
    /\ Len(summary.errors) = 1
    /\ Len(summary.warnings) = 0
    /\ Len(summary.info) = 0
    /\ Len(results) = 1
    /\ ~Ran("performStrictValidation")
    /\ ~Ran("validateFileReferences")
    /\ ~Ran("validateReferenceIntegrity")
    /\ exitCode = 2
    /\ ParseFails =>
         /\ "details" \in DOMAIN summary.errors[1]
         /\ summary.errors[1].details = fs[SettingsFile].content.message

\* a completed run on a document that does not parse, in strict mode
C3_Witness ==
  /\ Done
  /\ ParseFails
  /\ options.strict
  /\ FilesDir \in DOMAIN fs
  /\ exitCode = 2

(* C4: if schema validation of the parsed document yields an error, the   *)
(* run does not proceed to the reference checker or the cross-reference    *)
(* reporter: the report holds the schema errors and nothing else.          *)
SchemaFails == Parses /\ ~ValidDocument(Doc)

C4_SchemaErrorStopsPipeline ==
  (Done /\ SchemaFails) =>
    /\ Len(summary.warnings) = 0
    /\ Len(summary.info) = 0
    /\ \A i \in 1..Len(results) : results[i].path = SettingsFile

(* C5: for a document missing exactly one required field (or having it     *)
(* empty), the schema stage yields an error finding whose message names    *)
(* that field, emits no "valid" info finding, and success is false.        *)
MissingOrEmpty(d, k) == ~Has(d, k) \/ (d.v[k].t = "string" /\ Len(d.v[k].v) = 0)

MissingExactly(d, k) ==
  /\ d.t = "object"
  /\ MissingOrEmpty(d, k)
  /\ \A o \in RequiredFields \ {k} : Has(d, o) /\ NonEmptyString(d.v[o])

\* the messages of a schema error on required field k
NamingMessages(k) ==
  {"Schema validation failed: " \o k \o " - " \o text :
     text \in {"Required", "Stencil ID is required", "Stencil name is required",
               "Version is required", "Stencil type is required"}}

C5_MissingRequiredFieldIsNamed ==
  \A k \in RequiredFields :
    (Done /\ Parses /\ MissingExactly(Doc, k)) =>
      /\ \E i \in 1..Len(results) :
           results[i].type = "error" /\ results[i].message \in NamingMessages(k)
      /\ CountMessage(results, ValidMessage) = 0
      /\ summary.success = FALSE

\* a completed run on a document whose only defect is an empty version
C5_Witness ==
  /\ Done
  /\ Parses
  /\ MissingExactly(Doc, "version")
  /\ Has(Doc, "version")
  /\ ~summary.success

(* C6: the schema stage emits the "Stencil settings file is valid" info    *)
(* finding exactly once when schema validation fully succeeds (strict or   *)
(* not), and never after a schema, parse or read error.                    *)
C6_ValidInfoOnlyOnFullSuccess ==
  pc \notin {"validateStencilDefinition", "validateSettingsFile"} =>
    /\ CountMessage(results, ValidMessage) =
         IF Parses /\ ValidDocument(Doc) THEN 1 ELSE 0
    /\ \A i \in 1..Len(results) :
         results[i].message = ValidMessage => results[i].type = "info"

\* a strict run on a document with only the four required fields
C6_Witness ==
  /\ Done
  /\ Parses
  /\ ValidDocument(Doc)
  /\ DOMAIN Doc.v = RequiredFields
  /\ options.strict
  /\ CountMessage(results, ValidMessage) = 1

\* the schema of the code accepts exactly the documents of the data model
SchemaAgreesWithDataModel ==
  Parses => (safeParse(Doc).success <=> ValidDocument(Doc))

\* the findings of the reference checker: the only ones whose subject is
\* not the settings document
RefFindings == SelectSeq(results, LAMBDA r : r.path # SettingsFile)

\* the i-th declared entry of `files`
Entry(i) == Doc.v["files"].v[i].v

EntryExists(i) == join(absolutePath, Entry(i)) \in DOMAIN fs

(* C7: when `files` is present and non-empty in a valid document, the      *)
(* reference checker produces one finding per declared entry, in           *)
(* declaration order: info if the path exists, else the error "Referenced  *)
(* file does not exist: <entry>"; the number of errors is the number of    *)
(* missing entries and a missing entry forces exit code 2.                 *)
FilesDeclared ==
  Parses /\ ValidDocument(Doc) /\ Has(Doc, "files") /\ Len(Doc.v["files"].v) >= 1

C7_OneFindingPerDeclaredFile ==
  (Done /\ FilesDeclared) =>
    LET n == Len(Doc.v["files"].v)
        missing == {i \in 1..n : ~EntryExists(i)}
    IN /\ Len(RefFindings) = n
       /\ \A i \in 1..n :
            /\ RefFindings[i].path = join(absolutePath, Entry(i))
            /\ RefFindings[i].type = IF EntryExists(i) THEN "info" ELSE "error"
            /\ ~EntryExists(i) =>
                 RefFindings[i].message = "Referenced file does not exist: " \o Entry(i)
       /\ Len(summary.errors) = Cardinality(missing)
       /\ missing # {} => exitCode = 2

\* two declared entries, the first missing and the second present
C7_Witness ==
  /\ Done
  /\ FilesDeclared
  /\ Len(Doc.v["files"].v) = 2
  /\ ~EntryExists(1)
  /\ EntryExists(2)
  /\ Len(RefFindings) = 2

(* C8: when `files` is absent from a valid document, the reference checker *)
(* produces exactly one finding, about the implicit files/ directory: info *)
(* if it exists as a directory, warning otherwise; never an error, so      *)
(* success stays true.                                                     *)
FilesAbsent == Parses /\ ValidDocument(Doc) /\ ~Has(Doc, "files")

FilesDirIsDirectory == FilesDir \in DOMAIN fs /\ fs[FilesDir].kind = "dir"

C8_ImplicitFilesDirectory ==
  (Done /\ FilesAbsent) =>
    /\ Len(RefFindings) = 1
    /\ RefFindings[1].path = FilesDir
    /\ RefFindings[1].type = IF FilesDirIsDirectory THEN "info" ELSE "warning"
    /\ Len(summary.errors) = 0
    /\ summary.success

\* `files` absent and files/ is a regular file, not a directory
C8_Witness ==
  /\ Done
  /\ FilesAbsent
  /\ FilesDir \in DOMAIN fs
  /\ ~FilesDirIsDirectory
  /\ Len(summary.warnings) >= 1

\* the run agrees with validateStencilDefinition read as one function
RunIsValidateStencilDefinition ==
  pc \in {"output", "done"} =>
    summary = validateStencilDefinition(fs, absolutePath, options, summary.validatedAt)

StrictMessages == {IdMessage, VersionMessage, DescriptionMessage}

\* number of findings added by the strict checks
StrictCount(res) ==
  Cardinality({i \in 1..Len(res) : res[i].message \in StrictMessages})

\* the report of the same run with strict mode off
NonStrictSummary ==
  validateStencilDefinition(fs, absolutePath, [options EXCEPT !.strict = FALSE],
                            summary.validatedAt)

NonStrictExitCode == determineExitCode(NonStrictSummary, options.failOn)

(* C9: the strict checks run only when strict is requested and only after  *)
(* schema validation fully succeeded; every finding they add is a warning: *)
(* compared with the same run without strict, errors, info and success are *)
(* unchanged, and the exit code changes only from 0 to 1 and only when     *)
(* failOn = warn.                                                          *)
C9_StrictOnlyAddsWarnings ==
  /\ Ran("performStrictValidation") => (options.strict /\ Parses /\ ValidDocument(Doc))
  /\ StrictCount(results) > 0 => Ran("performStrictValidation")
  /\ \A i \in 1..Len(results) :
       results[i].message \in StrictMessages => results[i].type = "warning"
  /\ Done =>
       /\ summary.errors = NonStrictSummary.errors
       /\ summary.info = NonStrictSummary.info
       /\ summary.success = NonStrictSummary.success
       /\ Len(summary.warnings) = Len(NonStrictSummary.warnings) + StrictCount(results)
       /\ exitCode # NonStrictExitCode =>
            (NonStrictExitCode = 0 /\ exitCode = 1 /\ options.failOn = "warn")

\* strict mode turns exit code 0 into 1 under failOn = warn
C9_Witness ==
  /\ Done
  /\ options.strict
  /\ options.failOn = "warn"
  /\ Ran("performStrictValidation")
  /\ NonStrictExitCode = 0
  /\ exitCode = 1

(* C10: the three strict checks are independent and non-short-circuiting:  *)
(* in one strict run the number of strict warnings equals the number of    *)
(* violated conventions (id not matching [a-z0-9-_]+, version not starting *)
(* with digits.digits.digits, description missing), each convention        *)
(* contributing at most one warning.                                       *)
StrictRun == Done /\ options.strict /\ Parses /\ ValidDocument(Doc)

IdViolated      == ~IdPattern(Doc.v["id"].v)
VersionViolated == ~SemverPattern(Doc.v["version"].v)
DescriptionMissing == ~Has(Doc, "description")
DescriptionMissingOrEmpty ==
  ~Has(Doc, "description") \/ Len(Doc.v["description"].v) = 0

Bit(b) == IF b THEN 1 ELSE 0

\* C10 as stated: the description convention is violated when it is missing
C10_Original ==
  StrictRun =>
    /\ CountMessage(results, IdMessage) = Bit(IdViolated)
    /\ CountMessage(results, VersionMessage) = Bit(VersionViolated)
    /\ CountMessage(results, DescriptionMessage) = Bit(DescriptionMissing)
    /\ StrictCount(results) = Bit(IdViolated) + Bit(VersionViolated) + Bit(DescriptionMissing)

(* C10 amended: the same, with the description convention violated when    *)
(* the description is missing or an empty string.                          *)
C10_StrictChecksIndependent ==
  StrictRun =>
    /\ CountMessage(results, IdMessage) = Bit(IdViolated)
    /\ CountMessage(results, VersionMessage) = Bit(VersionViolated)
    /\ CountMessage(results, DescriptionMessage) = Bit(DescriptionMissingOrEmpty)
    /\ StrictCount(results) =
         Bit(IdViolated) + Bit(VersionViolated) + Bit(DescriptionMissingOrEmpty)

\* a strict run in which all three conventions are violated
C10_Witness ==
  /\ StrictRun
  /\ IdViolated
  /\ VersionViolated
  /\ DescriptionMissingOrEmpty
  /\ StrictCount(results) = 3

\* the warning of the cross-reference reporter for extend target x
ExtendMessage(x) == "Extend reference found: " \o x \o Phase1

\* the extend targets of the documents of the model
ExtendTargets == {"", "base-template"}

\* number of extend warnings in the report, whatever the target
ExtendCount(res) ==
  Cardinality({i \in 1..Len(res) : res[i].message \in {ExtendMessage(x) : x \in ExtendTargets}})

ExtendIsString == Parses /\ Has(Doc, "extend") /\ Doc.v["extend"].t = "string"

(* C11: if extend is set to a string, the cross-reference reporter emits   *)
(* exactly one warning naming the extend target, for every string value    *)
(* and whether or not the target exists on the file system.                *)
C11_ExtendWarnsOnce ==
  (Done /\ ExtendIsString) =>
    LET target == Doc.v["extend"].v IN
    /\ ExtendCount(results) = 1
    /\ CountMessage(results, ExtendMessage(target)) = 1
    /\ \A i \in 1..Len(results) :
         results[i].message = ExtendMessage(target) =>
           (results[i].type = "warning" /\ results[i].path = SettingsFile)

\* the warning of the cross-reference reporter for include entry x
IncludeMessage(x) == "Include reference found: " \o x \o Phase1

\* the findings the reporter step has appended
Appended == SubSeq(results', Len(results) + 1, Len(results'))

\* the settings value has a non-empty include sequence of strings
IncludeNonEmpty(s) ==
  Has(s, "include") /\ StringList(s.v["include"]) /\ Len(s.v["include"].v) >= 1

(* C12: if include is a non-empty sequence, the cross-reference reporter   *)
(* appends exactly one warning per entry, in sequence order, after the     *)
(* extend warning if any; nothing the reporter appends has severity error, *)
(* what it appends is fixed by the settings value alone, and the file      *)
(* system is left as it was.                                               *)
C12_IncludeWarningsInOrder ==
  [][pc = "validateReferenceIntegrity" =>
       /\ fs' = fs
       /\ Len(results') >= Len(results)
       /\ SubSeq(results', 1, Len(results)) = results
       /\ \A i \in 1..Len(Appended) : Appended[i].type = "warning"
       /\ IncludeNonEmpty(settings) =>
            LET include == settings.v["include"].v
                n == Len(include)
                k == Len(Appended) - n
            IN /\ k \in {0, 1}
               /\ k = 1 <=> Truthy(Get(settings, "extend"))
               /\ k = 1 => Appended[1].message = ExtendMessage(settings.v["extend"].v)
               /\ \A i \in 1..n :
                    Appended[k + i] =
                      [path |-> SettingsFile, type |-> "warning",
                       message |-> IncludeMessage(include[i].v)]]_vars

\* a run that has reported two different include entries after an extend warning
C12_Witness ==
  /\ pc = "createSummary"
  /\ Ran("validateReferenceIntegrity")
  /\ IncludeNonEmpty(settings)
  /\ Len(settings.v["include"].v) = 2
  /\ settings.v["include"].v[1] # settings.v["include"].v[2]
  /\ Len(results) >= 3
  /\ results[Len(results)].message = IncludeMessage(settings.v["include"].v[2].v)
  /\ results[Len(results) - 2].message = ExtendMessage("base-template")

\* the files below the root: directly in it or in one of its directories
FilesUnderRoot ==
  {p \in DOMAIN fs :
     /\ fs[p].kind = "file"
     /\ \/ fs[p].parent = absolutePath
        \/ \E d \in DOMAIN fs : fs[p].parent = d /\ fs[d].kind = "dir"
                                /\ fs[d].parent = absolutePath}

ReferenceRun ==
  validateStencilDefinition(fs, absolutePath,
                            [format |-> "text", failOn |-> "error", ignore |-> <<>>,
                             strict |-> options.strict],
                            summary.validatedAt)

(* C16: the report depends only on the directory and the strict flag:      *)
(* every run has the findings, success and file count of the run on the    *)
(* same directory with the same strict value and fixed format, failOn and  *)
(* ignore (so any two such runs agree), and its exit code is the one the   *)
(* exit-code policy gives that report under the run's failOn.              *)
C16_ReportIndependentOfRenderingOptions ==
  Done =>
    LET other == ReferenceRun IN
    /\ other.errors = summary.errors
    /\ other.warnings = summary.warnings
    /\ other.info = summary.info
    /\ other.success = summary.success
    /\ other.totalFiles = summary.totalFiles
    /\ determineExitCode(other, options.failOn) = exitCode

\* an ignore pattern covering a declared, missing file: its error is reported
C16_Witness ==
  /\ Done
  /\ Len(options.ignore) > 0
  /\ FilesDeclared
  /\ \E i \in 1..Len(Doc.v["files"].v) : ~EntryExists(i)
  /\ Len(summary.errors) >= 1
  /\ exitCode = 2

(* C17: validation is read-only: no step of a run (path checks, loading,   *)
(* schema and strict checks, file count, reference checks, cross-reference *)
(* report, summary, printing) creates, modifies or deletes a file or a     *)
(* directory.                                                              *)
C17_ReadOnly == [][fs' = fs]_vars

\* a run that went through every stage on a directory with files
C17_Witness ==
  /\ Done
  /\ Ran("validateSettingsFile")
  /\ Ran("performStrictValidation")
  /\ Ran("validateFileReferences")
  /\ Ran("validateReferenceIntegrity")
  /\ Cardinality(FilesUnderRoot) = 3
  /\ summary.totalFiles = 3

\* the positions of the findings of severity `type`, and the j-th of them
Positions(type) == {i \in 1..Len(results) : results[i].type = type}
NthPosition(type, j) ==
  CHOOSE i \in Positions(type) : Cardinality({k \in Positions(type) : k < i}) = j - 1

\* `list` holds the findings of severity `type`, each once, in production order
ListsExactly(list, type) ==
  /\ Len(list) = Cardinality(Positions(type))
  /\ \A j \in 1..Len(list) : list[j] = results[NthPosition(type, j)]

\* the stage a finding comes from: 1 settings document (and fatal cases),
\* 2 reference checker, 3 extend, 4 include
StageOf(r) ==
  CASE r.message \in {ExtendMessage(x) : x \in ExtendTargets} -> 3
    [] r.message \in {IncludeMessage(x) : x \in IncludeNames} -> 4
    [] r.path \notin {absolutePath, SettingsFile} -> 2
    [] OTHER -> 1

(* C19: findings are append-only and the report is an exact partition of   *)
(* them: no step removes or changes a finding already produced; findings   *)
(* are produced stage after stage (settings document, references, extend,  *)
(* include); in the report every finding is in exactly one of errors,      *)
(* warnings, info by its severity, in production order inside each list.   *)
C19_AppendOnlyExactPartition ==
  /\ [][/\ Len(results') >= Len(results)
        /\ SubSeq(results', 1, Len(results)) = results]_vars
  /\ [](\A i, j \in 1..Len(results) :
          i < j => StageOf(results[i]) <= StageOf(results[j]))
  /\ [](pc \in {"output", "done"} =>
          /\ \A i \in 1..Len(results) : results[i].type \in {"error", "warning", "info"}
          /\ ListsExactly(summary.errors, "error")
          /\ ListsExactly(summary.warnings, "warning")
          /\ ListsExactly(summary.info, "info")
          /\ Len(summary.errors) + Len(summary.warnings) + Len(summary.info)
               = Len(results))

\* a report with an error, two different warnings and two info findings
C19_Witness ==
  /\ Done
  /\ Len(summary.errors) >= 1
  /\ Len(summary.warnings) = 2
  /\ summary.warnings[1] # summary.warnings[2]
  /\ Len(summary.info) >= 2
  /\ \E i, j \in 1..Len(results) :
       i < j /\ results[i].type = "error" /\ results[j].type = "warning"

FilesEmpty ==
  Parses /\ ValidDocument(Doc) /\ Has(Doc, "files") /\ Len(Doc.v["files"].v) = 0

(* C20: when files is present but empty in a valid settings document, the  *)
(* reference checker produces no finding: neither a per-file finding nor   *)
(* the info or warning about the files/ directory, whether or not a files/ *)
(* directory exists.                                                       *)
C20_EmptyFilesNoReferenceFinding ==
  /\ (Done /\ FilesEmpty) =>
       /\ RefFindings = <<>>
       /\ CountMessage(results, FilesDirFound) = 0
       /\ CountMessage(results, FilesDirMissing) = 0
       /\ Ran("validateFileReferences")
  /\ (pc = "validateReferenceIntegrity" /\ FilesEmpty) =>
       results[Len(results)].message = ValidMessage

\* an empty files list beside an existing files/ directory
C20_Witness ==
  /\ Done
  /\ FilesEmpty
  /\ FilesDirIsDirectory
  /\ Ran("validateFileReferences")
  /\ summary.success

\* the run ended in the catch block of validateCommand
Failed == Done /\ thrown # Undefined

\* the output has the structure of a report and lists an error finding
ReportWithErrorFinding ==
  \/ /\ output.format = "json"
     /\ {"success", "path", "errors", "warnings", "info", "totalFiles", "validatedAt"}
          \subseteq DOMAIN output.json
     /\ ~output.json.success
     /\ Len(output.json.errors) >= 1
     /\ \A i \in 1..Len(output.json.errors) :
          /\ {"path", "type", "message"} \subseteq DOMAIN output.json.errors[i]
          /\ output.json.errors[i].type = "error"
  \/ /\ output.format = "text"
     /\ "lines" \in DOMAIN output
     /\ \E i \in 1..Len(output.lines) : output.lines[i] = "Errors (1):"

(* C13: a run either completes and emits a report, or fails closed: if an  *)
(* operation inside validation throws, validateCommand still terminates    *)
(* with exit code 2 and the output holds an error finding in the structure *)
(* of a report.                                                            *)
C13_FailsClosedWithFinding ==
  /\ pc = "catch" => ENABLED Catch
  /\ Done => output # Undefined /\ exitCode \in {0, 1, 2}
  /\ Failed => exitCode = 2 /\ ReportWithErrorFinding

(* C18: within one run the settings value the reference checker and the   *)
(* cross-reference reporter consume is the value the schema stage has      *)
(* validated, also when the settings document is rewritten on disk between *)
(* the two stages.                                                         *)
C18_ReferenceStagesUseValidatedValue ==
  pc \in {"validateFileReferences", "validateReferenceIntegrity"} =>
    settings = parsed

\* the second of two runs has completed
SecondRunDone == Done /\ previous # Undefined

(* C15: validation is deterministic and idempotent: the second of two runs *)
(* on an unchanged directory with the same options has the findings of the *)
(* first (paths, severities, messages, details, order) and the same        *)
(* success, totalFiles, path and exit code; only validatedAt may differ.   *)
C15_SecondRunSameReport ==
  SecondRunDone =>
    /\ summary.errors = previous.summary.errors
    /\ summary.warnings = previous.summary.warnings
    /\ summary.info = previous.summary.info
    /\ summary.success = previous.summary.success
    /\ summary.totalFiles = previous.summary.totalFiles
    /\ summary.path = previous.summary.path
    /\ exitCode = previous.exitCode
    /\ [summary EXCEPT !.validatedAt = previous.summary.validatedAt] = previous.summary

\* two runs with findings of all severities and different timestamps
C15_Witness ==
  /\ SecondRunDone
  /\ summary.validatedAt # previous.summary.validatedAt
  /\ Len(summary.errors) >= 1
  /\ Len(summary.warnings) >= 1
  /\ Len(summary.info) >= 1
  /\ summary.totalFiles >= 2

====
